---- MODULE Spec2Model ----
(***************************************************************************)
(* Model of slack-archive's incremental channel sync (src/src/archive.rs): *)
(* the timestamp codec, the derived cursor, the fetch/persist loop of      *)
(* archive_channel and the keyed store behind it.                          *)
(*                                                                         *)
(* Scaling.  TLC integers are 32-bit, and the program's timestamps are     *)
(* 16-digit decimal micros.  The codec is therefore modelled digit by      *)
(* digit exactly as the source computes it (split after 10 characters,     *)
(* skip one character, parse, multiply, pad to 10 and 6 digits), but over  *)
(* a positional system with Radix digits instead of ten: the source's      *)
(* 1_000_000 = 10^6 is MICROS_PER_SECOND = Radix^6 and a 10-digit seconds  *)
(* field holds values below Radix^10.  PAGE_SIZE is scaled from 1000 to a  *)
(* small page.                                                             *)
(***************************************************************************)
EXTENDS Integers, Sequences, FiniteSets, TLC

----------------------------------------------------------------------------
(* Option<T> is a sequence of length 0 (None) or 1 (Some(x)).              *)
None == <<>>
Some(x) == <<x>>
IsSome(o) == o # <<>>
Unwrap(o) == o[1]

(* A function call that either returns a value or panics / returns Err.    *)
Ok(v) == [ok |-> TRUE, val |-> v]
Bad == [ok |-> FALSE, val |-> 0]

----------------------------------------------------------------------------
(* Positional digits                                                       *)
DigitChars == <<"0", "1", "2">>
Radix == Len(DigitChars)

RECURSIVE Pow(_, _)
Pow(b, e) == IF e = 0 THEN 1 ELSE b * Pow(b, e - 1)

(* the literal 1_000_000 of the source: six fraction digits per second     *)
MICROS_PER_SECOND == Pow(Radix, 6)

IsDigit(c) == \E i \in 1..Radix : DigitChars[i] = c
DigitVal(c) == CHOOSE i \in 0..(Radix - 1) : DigitChars[i + 1] = c

RECURSIVE DigitsValue(_)
DigitsValue(s) ==
    IF s = <<>> THEN 0
    ELSE DigitsValue(SubSeq(s, 1, Len(s) - 1)) * Radix + DigitVal(s[Len(s)])

RECURSIVE ToDigits(_)
ToDigits(n) ==
    IF n < Radix THEN <<DigitChars[n + 1]>>
    ELSE ToDigits(n \div Radix) \o <<DigitChars[(n % Radix) + 1]>>

(* str::parse::<i64>: an optional sign followed by at least one digit.     *)
parse_i64(s) ==
    LET signed == s # <<>> /\ s[1] \in {"+", "-"}
        body == IF signed THEN Tail(s) ELSE s
    IN  IF body = <<>> \/ (\E i \in 1..Len(body) : ~IsDigit(body[i]))
        THEN Bad
        ELSE IF signed /\ s[1] = "-" THEN Ok(0 - DigitsValue(body))
             ELSE Ok(DigitsValue(body))

(* format!("{:0w}", n) for an i64: zero padding counts the sign.           *)
ZeroPad(s, w) == IF Len(s) >= w THEN s ELSE [i \in 1..(w - Len(s)) |-> "0"] \o s
format_zero(n, w) ==
    IF n >= 0 THEN ZeroPad(ToDigits(n), w)
    ELSE <<"-">> \o ZeroPad(ToDigits(0 - n), w - 1)

(* i64 `/` and `%`: truncation toward zero.                                *)
RustDiv(a, b) == IF a >= 0 THEN a \div b ELSE 0 - ((0 - a) \div b)
RustRem(a, b) == a - b * RustDiv(a, b)

----------------------------------------------------------------------------
(* Timestamp codec                                                         *)

(* slack_ts_to_unix_micros: split_at(10) panics on a shorter string,       *)
(* micros[1..] panics on an empty remainder, unwrap panics on a parse      *)
(* error.  Bad stands for the panic.                                       *)

(* faulty variant: the separator is not skipped *)
slack_ts_to_unix_micros_no_skip(ts) ==
    IF Len(ts) < 10 THEN Bad
    ELSE LET seconds == SubSeq(ts, 1, 10)
             micros == SubSeq(ts, 11, Len(ts))
         IN  IF micros = <<>> THEN Bad
             ELSE LET s == parse_i64(seconds)
                      u == parse_i64(micros)
                  IN  IF s.ok /\ u.ok
                      THEN Ok(s.val * MICROS_PER_SECOND + u.val)
                      ELSE Bad

slack_ts_to_unix_micros(ts) ==
    IF Len(ts) < 10 THEN Bad
    ELSE LET seconds == SubSeq(ts, 1, 10)
             micros == SubSeq(ts, 11, Len(ts))
         IN  IF micros = <<>> THEN Bad
             ELSE LET s == parse_i64(seconds)
                      u == parse_i64(Tail(micros))
                  IN  IF s.ok /\ u.ok
                      THEN Ok(s.val * MICROS_PER_SECOND + u.val)
                      ELSE Bad

unix_micros_to_slack_ts(micros) ==
    LET seconds == RustDiv(micros, MICROS_PER_SECOND)
        rem == RustRem(micros, MICROS_PER_SECOND)
    IN  format_zero(seconds, 10) \o <<".">> \o format_zero(rem, 6)

----------------------------------------------------------------------------
(* Program constants and model bounds                                      *)

(* const EDIT_WINDOW_MINUTES: i64 = 60                                     *)
EDIT_WINDOW_MINUTES == 60
(* const PAGE_SIZE: u32 = 1000, scaled down to a small page                *)
PAGE_SIZE == 2
(* number of message slots of the archived channel's feed                  *)
MaxMsgs == 3
(* fetch calls explored per run (a run that never ends is cut here)        *)
MaxFetches == 3
(* message edits made in the feed over a behaviour                         *)
MaxEdits == 1

Channels == {"C1", "C2"}

EditWindowMicros == EDIT_WINDOW_MINUTES * 60 * MICROS_PER_SECOND

(* Send times of the feed's message slots.  Slots 1 and 2 are one          *)
(* microsecond apart; slot 3 is exactly one edit window after slot 2, so   *)
(* that slot 2 lies on the boundary of slot 3's window and slot 1 outside  *)
(* it; later slots follow slot 3 one microsecond apart.  Every send time   *)
(* is more than one edit window after the epoch.                           *)
TimeBase == EditWindowMicros + 10
SlotTime(i) == IF i <= 2 THEN TimeBase + i ELSE TimeBase + EditWindowMicros + (i - 1)

----------------------------------------------------------------------------
(* The remote feed (slack::channels::history), as the driver uses it       *)

(* the wire timestamp the feed renders for a message sent at micros `at`   *)
FeedWire(at) ==
    ZeroPad(ToDigits(at \div MICROS_PER_SECOND), 10) \o <<".">>
        \o ZeroPad(ToDigits(at % MICROS_PER_SECOND), 6)

(* the feed's reading of the request's `oldest` parameter                  *)
FeedBound(w) ==
    LET p == CHOOSE i \in 1..Len(w) : w[i] = "."
    IN  DigitsValue(SubSeq(w, 1, p - 1)) * MICROS_PER_SECOND
            + DigitsValue(SubSeq(w, p + 1, Len(w)))

Message(kind, at, ts, user, text) ==
    [kind |-> kind, at |-> at, ts |-> ts, user |-> user, text |-> text]

(* wire timestamps that slack_ts_to_unix_micros cannot parse: a fraction   *)
(* that is not an integer, and a seconds part with nothing after it        *)
BadFractionWire(at) == [FeedWire(at) EXCEPT ![Len(FeedWire(at))] = "x"]
NoPointWire(at) == SubSeq(FeedWire(at), 1, 10)

(* the message variants a slot can hold; "-" is an empty slot              *)
SlotKinds == {"-", "S", "J"}
OddKinds == {"S_no_ts", "S_no_user", "S_no_text", "J_no_ts"}
MakeMessage(k, at) ==
    CASE k = "S" -> Message("Standard", at, Some(FeedWire(at)), Some("U1"), Some("a"))
      [] k = "J" -> Message("ChannelJoin", at, Some(FeedWire(at)), Some("U1"), None)
      [] k = "S_no_ts" -> Message("Standard", at, None, Some("U1"), Some("a"))
      [] k = "S_no_user" -> Message("Standard", at, Some(FeedWire(at)), None, Some("a"))
      [] k = "S_no_text" -> Message("Standard", at, Some(FeedWire(at)), Some("U1"), None)
      [] k = "J_no_ts" -> Message("ChannelJoin", at, None, Some("U1"), None)
      [] k = "S_bad_ts" -> Message("Standard", at, Some(BadFractionWire(at)), Some("U1"), Some("a"))
      [] k = "S_no_point" -> Message("Standard", at, Some(NoPointWire(at)), Some("U1"), Some("a"))
      [] k = "J_bad_ts" -> Message("ChannelJoin", at, Some(BadFractionWire(at)), Some("U1"), None)

RECURSIVE BuildFeed(_, _)
BuildFeed(f, i) ==
    IF i > MaxMsgs THEN <<>>
    ELSE (IF f[i] = "-" THEN <<>> ELSE <<MakeMessage(f[i], SlotTime(i))>>)
            \o BuildFeed(f, i + 1)

(* feeds of the archived channel, ascending send time: any selection of    *)
(* slots holding well-formed messages, or a full feed of standard messages *)
(* in which one message misses a field                                     *)
FeedLayouts ==
    [1..MaxMsgs -> SlotKinds]
    \cup {f \in [1..MaxMsgs -> {"S"} \cup OddKinds] :
            Cardinality({i \in 1..MaxMsgs : f[i] \in OddKinds}) = 1}

(* feeds of standard messages in which one message carries a wire         *)
(* timestamp that cannot be parsed, or is an event without a timestamp     *)
MalformedKinds == {"S_bad_ts", "S_no_point", "J_bad_ts"}
HostileKinds == MalformedKinds \cup {"J_no_ts"}
HostileLayouts ==
    {f \in [1..MaxMsgs -> {"S"} \cup HostileKinds] :
        Cardinality({i \in 1..MaxMsgs : f[i] \in HostileKinds}) = 1}

(* a second channel whose only message shares slot 1's timestamp           *)
OtherFeed == <<Message("Standard", SlotTime(1), Some(FeedWire(SlotTime(1))), Some("U2"), Some("a"))>>

Reverse(s) == [i \in 1..Len(s) |-> s[Len(s) + 1 - i]]

(* channels.history with `oldest` set and `latest` unset: the `count`      *)
(* messages after `oldest` that are closest to it, newest first            *)
HistoryMessages(f, oldest, count) ==
    LET lo == FeedBound(oldest)
        after == SelectSeq(f, LAMBDA m : m.at > lo)
    IN  Reverse(SubSeq(after, 1, IF Len(after) < count THEN Len(after) ELSE count))

HistoryHasMore(f, oldest, count) ==
    Len(SelectSeq(f, LAMBDA m : m.at > FeedBound(oldest))) > count

----------------------------------------------------------------------------
(* The store: table `message` with PRIMARY KEY (channel_id, ts)            *)

Record(c, ts, from, text) == [channel_id |-> c, ts |-> ts, from |-> from, text |-> text]
SameKey(r, c, ts) == r.channel_id = c /\ r.ts = ts
HasKey(db, c, ts) == \E r \in db : SameKey(r, c, ts)
ChannelRecords(db, c) == {r \in db : r.channel_id = c}

SetMax(S) == CHOOSE x \in S : \A y \in S : y <= x
SetMin(S) == CHOOSE x \in S : \A y \in S : x <= y

(* SELECT ts FROM message where channel_id = ? ORDER BY ts DESC LIMIT 1    *)

(* faulty variant: no channel filter *)
get_last_ts_any_channel(db, channel_id) ==
    IF db = {} THEN None ELSE Some(SetMax({r.ts : r \in db}))
(* faulty variant: ORDER BY ts ASC *)
get_last_ts_first(db, channel_id) ==
    LET rows == ChannelRecords(db, channel_id)
    IN  IF rows = {} THEN None ELSE Some(SetMin({r.ts : r \in rows}))
get_last_ts(db, channel_id) ==
    LET rows == ChannelRecords(db, channel_id)
    IN  IF rows = {} THEN None ELSE Some(SetMax({r.ts : r \in rows}))

(* INSERT OR REPLACE INTO message ... : `from` is NOT NULL, `text` is      *)
(* nullable; a row with the same primary key is replaced.                  *)

(* faulty variant: INSERT, which fails on an existing primary key *)
insert_plain(db, c, ts, from, text) ==
    IF from = None \/ HasKey(db, c, ts) THEN [ok |-> FALSE, db |-> db]
    ELSE [ok |-> TRUE, db |-> db \cup {Record(c, ts, Unwrap(from), text)}]
(* faulty variant: INSERT OR IGNORE, which keeps the existing row *)
insert_or_ignore(db, c, ts, from, text) ==
    IF from = None THEN [ok |-> FALSE, db |-> db]
    ELSE IF HasKey(db, c, ts) THEN [ok |-> TRUE, db |-> db]
    ELSE [ok |-> TRUE, db |-> db \cup {Record(c, ts, Unwrap(from), text)}]
(* faulty variant: the primary key is (ts) alone *)
insert_or_replace_by_ts(db, c, ts, from, text) ==
    IF from = None THEN [ok |-> FALSE, db |-> db]
    ELSE [ok |-> TRUE,
          db |-> {r \in db : r.ts # ts} \cup {Record(c, ts, Unwrap(from), text)}]
(* faulty variant: the primary key is (channel_id) alone *)
insert_or_replace_by_channel(db, c, ts, from, text) ==
    IF from = None THEN [ok |-> FALSE, db |-> db]
    ELSE [ok |-> TRUE,
          db |-> {r \in db : r.channel_id # c} \cup {Record(c, ts, Unwrap(from), text)}]
insert_or_replace(db, c, ts, from, text) ==
    IF from = None THEN [ok |-> FALSE, db |-> db]
    ELSE [ok |-> TRUE,
          db |-> {r \in db : ~SameKey(r, c, ts)} \cup {Record(c, ts, Unwrap(from), text)}]

----------------------------------------------------------------------------
(* archive_channel                                                         *)

(* lines 70-75: the lower bound of the run's first fetch                   *)

(* faulty variant: the edit window is not subtracted *)
start_oldest_ts_no_window(last, window_minutes) ==
    IF last = None THEN 1 ELSE Unwrap(last)
start_oldest_ts(last, window_minutes) ==
    IF last = None THEN 1
    ELSE Unwrap(last) - (window_minutes * 60 * MICROS_PER_SECOND)

(* message_ts: every variant carries an optional ts; Bad is the panic of   *)
(* slack_ts_to_unix_micros                                                 *)

(* faulty variant: only the Standard arm of the match yields a timestamp *)
message_ts_standard_only(message) ==
    IF IsSome(message.ts) /\ message.kind = "Standard"
    THEN LET r == slack_ts_to_unix_micros(Unwrap(message.ts))
         IN  IF r.ok THEN Ok(Some(r.val)) ELSE Bad
    ELSE Ok(None)
message_ts(message) ==
    IF IsSome(message.ts)
    THEN LET r == slack_ts_to_unix_micros(Unwrap(message.ts))
         IN  IF r.ok THEN Ok(Some(r.val)) ELSE Bad
    ELSE Ok(None)

(* lines 100-102: the newest message of the page moves the lower bound     *)

(* faulty variant: the last element of the page, its oldest message *)
next_oldest_ts_from_last(oldest, messages) ==
    LET t == message_ts(messages[Len(messages)])
    IN  IF t.ok /\ IsSome(t.val) THEN Unwrap(t.val) ELSE oldest
next_oldest_ts(oldest, messages) ==
    LET t == message_ts(messages[1])
    IN  IF t.ok /\ IsSome(t.val) THEN Unwrap(t.val) ELSE oldest

(* lines 93-95: an empty page breaks out of the loop, the run returns Ok   *)

(* faulty variant: `continue` in place of `break` *)
on_empty_page_continue == "fetch"
on_empty_page == "done"

(* line 105: messages.into_iter().rev()                                    *)

(* faulty variant: without rev() *)
iteration_order_desc(messages) == messages
iteration_order(messages) == Reverse(messages)

(* line 107 / 121: only the Standard variant is written                    *)

(* faulty variants: every variant is written; a body is required *)
is_persisted_any(message) == TRUE
is_persisted_with_text(message) == message.kind = "Standard" /\ message.text # None
is_persisted(message) == message.kind = "Standard"

(* line 126: response.has_more.unwrap_or(false)                            *)

(* faulty variant: the flag is ignored *)
has_more_never(has_more) == FALSE
(* faulty variant: unwrap_or(true), an absent flag asks for another page *)
has_more_or_true(has_more) == IF IsSome(has_more) THEN Unwrap(has_more) ELSE TRUE
has_more_or_false(has_more) == IF IsSome(has_more) THEN Unwrap(has_more) ELSE FALSE

----------------------------------------------------------------------------
(* State                                                                   *)

VARIABLES
    feed,                 \* channel id -> the feed's messages, oldest first
    db,                   \* rows of table `message`
    edit_window_minutes,  \* the configured EDIT_WINDOW_MINUTES
    pc,                   \* position of the sync run
    chan,                 \* channel_id of the current run
    oldest_ts,            \* archive_channel's local `oldest_ts`
    response,             \* the last response of channels.history
    todo,                 \* messages of the page still to be iterated
    log,                  \* fetch calls and writes of the current run
    before,               \* how the previous run ended, if it was this channel's
    edits,                \* number of edits made in the feed
    codec                 \* last evaluation of the timestamp codec

vars == <<feed, db, edit_window_minutes, pc, chan, oldest_ts, response, todo,
          log, before, edits, codec>>

NoResponse == [messages |-> None, has_more |-> None]
NoCodec == [op |-> "none", wire_in |-> <<>>, micros_in |-> 0,
            wire_out |-> <<>>, micros_out |-> 0, ok |-> TRUE]

Running == pc \in {"fetch", "persist"}

(* one entry of the run's log: a "start" entry (ts the first lower bound,  *)
(* newest the derived cursor), a "fetch" entry per channels.history call   *)
(* (ts the lower bound sent, n the page's length, res "more" / "last" /     *)
(* "err", kind and newest the variant and send time of the page's first    *)
(* message), a "write" entry per db.execute (n = 1 if the key existed)     *)
Event(e, ts, n, res, kind, from, text, newest) ==
    [e |-> e, ts |-> ts, n |-> n, res |-> res, kind |-> kind,
     from |-> from, text |-> text, newest |-> newest]
FetchCalls(l) == SelectSeq(l, LAMBDA x : x.e = "fetch")
Writes(l) == SelectSeq(l, LAMBDA x : x.e = "write" /\ x.res = "ok")

Init ==
    /\ \E f \in FeedLayouts :
          feed = [c \in Channels |-> IF c = "C1" THEN BuildFeed(f, 1) ELSE OtherFeed]
    /\ db = {}
    /\ edit_window_minutes \in {0, EDIT_WINDOW_MINUTES}
    /\ pc = "idle"
    /\ chan = "C1"
    /\ oldest_ts = 0
    /\ response = NoResponse
    /\ todo = <<>>
    /\ log = <<>>
    /\ before = "idle"
    /\ edits = 0
    /\ codec = NoCodec

(* the run ends: Ok(()) at line 131, an Err through `?`, or a panic *)
Finish(outcome) == pc' = outcome
Continue(next) == pc' = next

(* how the run before a run of channel c ended: "idle" when there was none, *)
(* when it was another channel's, or when the feed was edited since         *)
Previous(c) == IF chan = c THEN pc ELSE "idle"

----------------------------------------------------------------------------
(* Actions                                                                 *)

(* archive_channel, lines 70-75: derive the cursor and the first bound *)
StartRun(c) ==
    /\ ~Running
    /\ chan' = c
    /\ oldest_ts' = start_oldest_ts(get_last_ts(db, c), edit_window_minutes)
    /\ pc' = "fetch"
    /\ response' = NoResponse
    /\ todo' = <<>>
    /\ log' = <<Event("start", oldest_ts', 0, "ok", "", None, None, get_last_ts(db, c))>>
    /\ before' = Previous(c)
    /\ UNCHANGED <<feed, db, edit_window_minutes, edits, codec>>

(* line 70: get_last_ts returns Err (line 181) and `?` returns it *)
StartError(c) ==
    /\ ~Running
    /\ chan' = c
    /\ oldest_ts' = 0
    /\ response' = NoResponse
    /\ todo' = <<>>
    /\ log' = <<Event("start", 0, 0, "err", "", None, None, None)>>
    /\ before' = Previous(c)
    /\ pc' = "failed"
    /\ UNCHANGED <<feed, db, edit_window_minutes, edits, codec>>

(* lines 79-102: one channels.history call and the handling of its page up *)
(* to the start of the persist loop                                        *)
(* (a response that carries a message list; FetchNoList is the response    *)
(* without one)                                                            *)
FetchPage ==
    /\ pc = "fetch"
    /\ Len(FetchCalls(log)) < MaxFetches
    /\ LET oldest == unix_micros_to_slack_ts(oldest_ts)
           messages == HistoryMessages(feed[chan], oldest, PAGE_SIZE)
           more == HistoryHasMore(feed[chan], oldest, PAGE_SIZE)
           newest == IF messages = <<>> THEN Ok(None) ELSE message_ts(messages[1])
       IN  \E has_more \in (IF more THEN {Some(TRUE)} ELSE {Some(FALSE), None}) :
            /\ log' = Append(log,
                  Event("fetch", oldest_ts, Len(messages),
                        IF more THEN "more" ELSE "last",
                        IF messages = <<>> THEN "" ELSE messages[1].kind,
                        None, None,
                        IF messages = <<>> \/ messages[1].ts = None THEN None
                        ELSE Some(messages[1].at)))
            /\ IF messages = <<>>
               THEN /\ Finish(on_empty_page)
                    /\ response' = NoResponse
                    /\ UNCHANGED <<oldest_ts, todo>>
               ELSE IF ~newest.ok
               THEN /\ Finish("panicked")
                    /\ response' = NoResponse
                    /\ UNCHANGED <<oldest_ts, todo>>
               ELSE /\ Continue("persist")
                    /\ response' = [messages |-> Some(messages), has_more |-> has_more]
                    /\ oldest_ts' = next_oldest_ts(oldest_ts, messages)
                    /\ todo' = iteration_order(messages)
    /\ UNCHANGED <<feed, db, edit_window_minutes, chan, before, edits, codec>>

(* line 89: channels.history fails and `?` returns the error *)

(* faulty variant: the failed call is retried inside the loop *)
FetchErrorRetry ==
    /\ pc = "fetch"
    /\ Len(FetchCalls(log)) < MaxFetches
    /\ log' = Append(log, Event("fetch", oldest_ts, 0, "err", "", None, None, None))
    /\ Continue("fetch")
    /\ UNCHANGED <<feed, db, edit_window_minutes, chan, oldest_ts, response, todo,
                   before, edits, codec>>

FetchError ==
    /\ pc = "fetch"
    /\ Len(FetchCalls(log)) < MaxFetches
    /\ log' = Append(log, Event("fetch", oldest_ts, 0, "err", "", None, None, None))
    /\ Finish("failed")
    /\ UNCHANGED <<feed, db, edit_window_minutes, chan, oldest_ts, response, todo,
                   before, edits, codec>>

(* lines 105-123: one iteration of the persist loop *)
PersistMessage ==
    /\ pc = "persist"
    /\ todo # <<>>
    /\ LET message == Head(todo)
       IN  IF ~is_persisted(message)
           THEN /\ Continue("persist")
                /\ todo' = Tail(todo)
                /\ UNCHANGED <<db, log>>
           ELSE IF message.ts = None
           THEN /\ Finish("panicked")
                /\ log' = Append(log, Event("panic", 0, 0, "unwrap", message.kind,
                                            message.user, message.text, None))
                /\ UNCHANGED <<db, todo>>
           ELSE LET ts == slack_ts_to_unix_micros(Unwrap(message.ts))
                    r == insert_or_replace(db, chan, ts.val, message.user, message.text)
                    existed == IF HasKey(db, chan, ts.val) THEN 1 ELSE 0
                IN  IF ~ts.ok
                    THEN /\ Finish("panicked")
                         /\ log' = Append(log, Event("panic", 0, 0, "ts", message.kind,
                                                     message.user, message.text, None))
                         /\ UNCHANGED <<db, todo>>
                    ELSE IF ~r.ok
                    THEN /\ Finish("failed")
                         /\ log' = Append(log, Event("write", ts.val, existed, "constraint",
                                       message.kind, message.user, message.text, None))
                         /\ UNCHANGED <<db, todo>>
                    ELSE /\ Continue("persist")
                         /\ db' = r.db
                         /\ todo' = Tail(todo)
                         /\ log' = Append(log, Event("write", ts.val, existed, "ok",
                                       message.kind, message.user, message.text, None))
    /\ UNCHANGED <<feed, edit_window_minutes, chan, oldest_ts, response, before,
                   edits, codec>>

(* line 119: db.execute fails for a storage-level reason *)
PersistError ==
    /\ pc = "persist"
    /\ todo # <<>>
    /\ is_persisted(Head(todo))
    /\ Head(todo).ts # None
    /\ slack_ts_to_unix_micros(Unwrap(Head(todo).ts)).ok
    /\ LET message == Head(todo)
           ts == slack_ts_to_unix_micros(Unwrap(message.ts)).val
       IN  log' = Append(log, Event("write", ts, IF HasKey(db, chan, ts) THEN 1 ELSE 0,
                                    "io", message.kind, message.user, message.text, None))
    /\ Finish("failed")
    /\ UNCHANGED <<feed, db, edit_window_minutes, chan, oldest_ts, response, todo,
                   before, edits, codec>>

(* lines 126-129: after the page, loop again or leave the loop *)
PageDone ==
    /\ pc = "persist"
    /\ todo = <<>>
    /\ IF has_more_or_false(response.has_more)
       THEN Continue("fetch") /\ UNCHANGED response
       ELSE Finish("done") /\ response' = NoResponse
    /\ UNCHANGED <<feed, db, edit_window_minutes, chan, oldest_ts, todo,
                   log, before, edits, codec>>

(* between runs a user edits the body of a standard message in the feed; the *)
(* process of the last run is gone by then                                   *)
EditMessage(c, i) ==
    /\ ~Running
    /\ c = "C1"
    /\ edits < MaxEdits
    /\ i \in 1..Len(feed[c])
    /\ feed[c][i].kind = "Standard"
    /\ feed[c][i].text = Some("a")
    /\ feed' = [feed EXCEPT ![c][i].text = Some("b")]
    /\ edits' = edits + 1
    /\ pc' = "idle"
    /\ oldest_ts' = 0
    /\ response' = NoResponse
    /\ todo' = <<>>
    /\ log' = <<>>
    /\ before' = "idle"
    /\ UNCHANGED <<db, edit_window_minutes, chan, codec>>

Next ==
    \/ \E c \in Channels : StartRun(c)
    \/ \E c \in Channels : StartError(c)
    \/ FetchPage
    \/ FetchError
    \/ PersistMessage
    \/ PersistError
    \/ PageDone
    \/ \E c \in Channels : \E i \in 1..MaxMsgs : EditMessage(c, i)

Spec == Init /\ [][Next]_vars

----------------------------------------------------------------------------
(* The same program against a feed that is less well behaved: a message    *)
(* may carry a wire timestamp that cannot be parsed, and a response may    *)
(* come without a message list.                                            *)

InitHostile ==
    /\ \E f \in HostileLayouts :
          feed = [c \in Channels |-> IF c = "C1" THEN BuildFeed(f, 1) ELSE OtherFeed]
    /\ db = {}
    /\ edit_window_minutes = EDIT_WINDOW_MINUTES
    /\ pc = "idle"
    /\ chan = "C1"
    /\ oldest_ts = 0
    /\ response = NoResponse
    /\ todo = <<>>
    /\ log = <<>>
    /\ before = "idle"
    /\ edits = 0
    /\ codec = NoCodec

(* lines 79-91 and 126-129: a response whose `messages` is None; the block *)
(* of line 91 is skipped and only the has_more check is made.  The fetch   *)
(* entry of such a response has kind "absent".                             *)
FetchNoList ==
    /\ pc = "fetch"
    /\ Len(FetchCalls(log)) < MaxFetches
    /\ \E has_more \in {Some(TRUE), Some(FALSE), None} :
          /\ log' = Append(log,
                Event("fetch", oldest_ts, 0,
                      IF has_more_or_false(has_more) THEN "more" ELSE "last",
                      "absent", None, None, None))
          /\ IF has_more_or_false(has_more)
             THEN Continue("fetch") /\ response' = [messages |-> None, has_more |-> has_more]
             ELSE Finish("done") /\ response' = NoResponse
    /\ UNCHANGED <<feed, db, edit_window_minutes, chan, oldest_ts, todo, before,
                   edits, codec>>

NextHostile ==
    \/ Next
    \/ FetchNoList

SpecHostile == InitHostile /\ [][NextHostile]_vars

----------------------------------------------------------------------------
(* The timestamp codec on its own: inputs drawn from bounded sets, each    *)
(* action one round trip through both conversions.                         *)

(* wire timestamps <10-digit seconds>.<6-digit fraction> *)
WireSamples ==
    {<<a, "0", "0", "0", "0", "0", "0", "0", b, c, ".", d, "0", "0", "0", "0", e>> :
        a \in {"0", "1"}, b \in {"0", "2"}, c \in {"0", "1", "2"},
        d \in {"0", "1", "2"}, e \in {"0", "1", "2"}}

(* non-negative micros, among them values whose seconds need 11 digits *)
SecondsSamples ==
    {0, 1, Radix + 1, Pow(Radix, 9), Pow(Radix, 10) - 1, Pow(Radix, 10), Pow(Radix, 10) + Radix}
MicrosSamples ==
    {sec * MICROS_PER_SECOND + u :
        sec \in SecondsSamples, u \in {0, 1, Radix, MICROS_PER_SECOND - 1}}

InitCodec ==
    /\ feed = [c \in Channels |-> <<>>]
    /\ db = {}
    /\ edit_window_minutes = EDIT_WINDOW_MINUTES
    /\ pc = "idle"
    /\ chan = "C1"
    /\ oldest_ts = 0
    /\ response = NoResponse
    /\ todo = <<>>
    /\ log = <<>>
    /\ before = "idle"
    /\ edits = 0
    /\ codec = NoCodec

(* unix_micros_to_slack_ts(slack_ts_to_unix_micros(t)) *)
RoundTripWire(t) ==
    /\ LET m == slack_ts_to_unix_micros(t)
       IN  codec' = [op |-> "wire", wire_in |-> t, micros_in |-> 0,
                     micros_out |-> m.val, ok |-> m.ok,
                     wire_out |-> IF m.ok THEN unix_micros_to_slack_ts(m.val) ELSE <<>>]
    /\ UNCHANGED <<feed, db, edit_window_minutes, pc, chan, oldest_ts, response,
                   todo, log, before, edits>>

(* slack_ts_to_unix_micros(unix_micros_to_slack_ts(m)) *)
RoundTripMicros(m) ==
    /\ LET w == unix_micros_to_slack_ts(m)
           r == slack_ts_to_unix_micros(w)
       IN  codec' = [op |-> "micros", wire_in |-> <<>>, micros_in |-> m,
                     wire_out |-> w, ok |-> r.ok, micros_out |-> r.val]
    /\ UNCHANGED <<feed, db, edit_window_minutes, pc, chan, oldest_ts, response,
                   todo, log, before, edits>>

NextCodec ==
    \/ \E t \in WireSamples : RoundTripWire(t)
    \/ \E m \in MicrosSamples : RoundTripMicros(m)

SpecCodec == InitCodec /\ [][NextCodec]_vars

----------------------------------------------------------------------------
(* Vocabulary of the properties                                            *)

(* the record a standard message of channel c is stored as *)
ExpectedRecord(c, m) == Record(c, m.at, Unwrap(m.user), m.text)
Timestamped(c) ==
    {i \in 1..Len(feed[c]) : feed[c][i].kind = "Standard" /\ feed[c][i].ts # None}
Persistable(m) == m.kind = "Standard" /\ m.ts # None /\ m.user # None

(* the run's start entry: the cursor it derived and its first lower bound *)
StartedOk == log # <<>> /\ log[1].e = "start" /\ log[1].res = "ok"
CursorAtStart == log[1].newest
WriteAttempts(l) == SelectSeq(l, LAMBDA x : x.e = "write")
NewKeyWrites(l) == SelectSeq(l, LAMBDA x : x.e = "write" /\ x.res = "ok" /\ x.n = 0)

AllStored(c) ==
    \A i \in Timestamped(c) : HasKey(db, c, feed[c][i].at)
AllStoredAsInFeed(c) ==
    \A i \in Timestamped(c) : ExpectedRecord(c, feed[c][i]) \in db

----------------------------------------------------------------------------
(* C1  First-run completeness: when a run of a channel that had no stored   *)
(* record completes, every standard message of the channel that carries a  *)
(* timestamp is in the store, as the feed holds it, whatever the number of *)
(* pages.                                                                  *)
FirstRunComplete ==
    (pc = "done" /\ StartedOk /\ CursorAtStart = None) => AllStoredAsInFeed(chan)

(* a first run that ended after more than one page, all messages stored *)
FirstRunCompleteWitness ==
    /\ pc = "done" /\ StartedOk /\ CursorAtStart = None
    /\ Cardinality(Timestamped(chan)) > PAGE_SIZE
    /\ Len(FetchCalls(log)) >= 2
    /\ Len(NewKeyWrites(log)) = Cardinality(Timestamped(chan))

(* C2  Idempotent last-write-wins persistence: the store never holds two   *)
(* records with one (channel_id, ts) key; a write whose key already exists *)
(* does not fail for that reason; and after a write the key has exactly    *)
(* one record, carrying the author and body of the most recent write.      *)
LastWriteWins ==
    /\ \A r1, r2 \in db : SameKey(r1, r2.channel_id, r2.ts) => r1 = r2
    /\ \A i \in 1..Len(log) :
          (log[i].e = "write" /\ log[i].n = 1 /\ log[i].from # None /\ log[i].res # "io")
              => log[i].res = "ok"
    /\ \A i \in 1..Len(log) :
          (/\ log[i].e = "write" /\ log[i].res = "ok"
           /\ \A j \in (i + 1)..Len(log) :
                 ~(log[j].e = "write" /\ log[j].res = "ok" /\ log[j].ts = log[i].ts))
              => {r \in db : SameKey(r, chan, log[i].ts)}
                     = {Record(chan, log[i].ts, Unwrap(log[i].from), log[i].text)}

(* an existing record was overwritten with an edited body *)
LastWriteWinsWitness ==
    \E i \in 1..Len(log) :
        /\ log[i].e = "write" /\ log[i].res = "ok" /\ log[i].n = 1
        /\ log[i].text = Some("b")
        /\ Record(chan, log[i].ts, Unwrap(log[i].from), Some("b")) \in db

(* C3  Overlap capture.  A standard message m of the channel whose record  *)
(* was in the store when the run started and whose body was edited in the  *)
(* feed: InWindow is the claim's condition on its timestamp, StrictlyIn    *)
(* the one the code meets.                                                 *)
StoredBeforeRun(m) ==
    /\ HasKey(db, chan, m.at)
    /\ \A i \in 1..Len(log) : ~(log[i].e = "write" /\ log[i].n = 0 /\ log[i].ts = m.at)
WindowStart == Unwrap(CursorAtStart) - edit_window_minutes * 60 * MICROS_PER_SECOND
EditedInFeed(m) == m.kind = "Standard" /\ m.ts # None /\ m.text = Some("b")
RunCompletedWithCursor == pc = "done" /\ StartedOk /\ CursorAtStart # None

(* the claim as written: every edited message at or after (last - window)  *)
(* has its edited body in the store when the run has completed             *)
OverlapCaptureInclusive ==
    RunCompletedWithCursor =>
        \A i \in 1..Len(feed[chan]) :
            LET m == feed[chan][i]
            IN  (EditedInFeed(m) /\ StoredBeforeRun(m) /\ m.at >= WindowStart)
                    => ExpectedRecord(chan, m) \in db

(* C3 as amended: every edited message strictly after (last - window) has  *)
(* its edited body in the store when the run has completed                 *)
OverlapCapture ==
    RunCompletedWithCursor =>
        \A i \in 1..Len(feed[chan]) :
            LET m == feed[chan][i]
            IN  (EditedInFeed(m) /\ StoredBeforeRun(m) /\ m.at > WindowStart)
                    => ExpectedRecord(chan, m) \in db

(* a completed later run replaced the body of an older, edited message     *)
(* while other messages lay in its window                                  *)
OverlapCaptureWitness ==
    /\ RunCompletedWithCursor
    /\ \E i \in 1..Len(feed[chan]) :
          LET m == feed[chan][i]
          IN  /\ EditedInFeed(m) /\ StoredBeforeRun(m) /\ m.at > WindowStart
              /\ m.at < Unwrap(CursorAtStart)
              /\ ExpectedRecord(chan, m) \in db
    /\ Len(WriteAttempts(log)) >= 2

(* C4  Resume after failure: when the run after an aborted run of the same *)
(* channel completes (the feed unchanged in between), every standard       *)
(* message of the channel is stored; if the feed was never edited the      *)
(* channel's records are exactly the feed's standard messages.             *)
ResumeAfterFailure ==
    (pc = "done" /\ before \in {"failed", "panicked"}) =>
        /\ AllStored(chan)
        /\ edits = 0 =>
              ChannelRecords(db, chan)
                  = {ExpectedRecord(chan, feed[chan][i]) : i \in Timestamped(chan)}

(* the completed run stored messages the aborted run had left out *)
ResumeAfterFailureWitness ==
    /\ pc = "done" /\ before = "failed"
    /\ StartedOk /\ CursorAtStart # None
    /\ Len(NewKeyWrites(log)) >= 1

(* C5  Cursor monotonicity: with the edit window at 0, the run that        *)
(* follows a completed run of the same channel, the feed unchanged, writes *)
(* no record under a key the store did not hold.                           *)
CursorMonotonic ==
    (edit_window_minutes = 0 /\ before = "done") => Len(NewKeyWrites(log)) = 0

(* such a second run has ended, after a first run that stored messages *)
CursorMonotonicWitness ==
    /\ edit_window_minutes = 0 /\ before = "done" /\ pc = "done"
    /\ StartedOk /\ CursorAtStart # None
    /\ Len(FetchCalls(log)) >= 1

(* C6  Timestamp codec round trip: converting a wire timestamp to micros   *)
(* and back returns the wire timestamp, and converting non-negative micros *)
(* to a wire timestamp and back returns the micros, without a panic.       *)
CodecRoundTrip ==
    /\ codec.op = "wire" => (codec.ok /\ codec.wire_out = codec.wire_in)
    /\ codec.op = "micros" => (codec.ok /\ codec.micros_out = codec.micros_in)

(* the fetch call whose page the log entry at position i belongs to *)
FetchBefore(i) ==
    CHOOSE k \in 1..i : log[k].e = "fetch" /\ \A j \in (k + 1)..i : log[j].e # "fetch"
SamePage(i, j) == \A k \in (i + 1)..j : log[k].e # "fetch"
IsWrite(x) == x.e = "write"

(* C7  Two-page first run: on a first run over N persistable messages with *)
(* PAGE_SIZE < N <= 2 * PAGE_SIZE there are never more than two fetch      *)
(* calls, and when the run is done there were exactly two, the first with  *)
(* PAGE_SIZE messages and more to come, the second with the other          *)
(* N - PAGE_SIZE and no more; all N were written in ascending order and    *)
(* the derived cursor is the newest message's timestamp.                   *)
TwoPageScenario ==
    /\ StartedOk /\ CursorAtStart = None
    /\ Len(feed[chan]) > PAGE_SIZE /\ Len(feed[chan]) <= 2 * PAGE_SIZE
    /\ \A i \in 1..Len(feed[chan]) : Persistable(feed[chan][i])

TwoPageFirstRun ==
    TwoPageScenario =>
        LET N == Len(feed[chan])
            calls == FetchCalls(log)
            writes == WriteAttempts(log)
        IN  /\ Len(calls) <= 2
            /\ (pc = "fetch" => Len(calls) < 2)
            /\ pc = "done" =>
                  /\ Len(calls) = 2
                  /\ calls[1].n = PAGE_SIZE /\ calls[1].res = "more"
                  /\ calls[2].n = N - PAGE_SIZE /\ calls[2].res = "last"
                  /\ Len(writes) = N
                  /\ \A i \in 1..N : writes[i].res = "ok" /\ writes[i].ts = feed[chan][i].at
                  /\ get_last_ts(db, chan) = Some(feed[chan][N].at)

(* such a run is done *)
TwoPageFirstRunWitness ==
    /\ TwoPageScenario
    /\ pc = "done"
    /\ Len(FetchCalls(log)) = 2
    /\ Len(feed[chan]) > PAGE_SIZE

(* C8  Ordering preservation: the writes made for one page are applied in  *)
(* strictly ascending timestamp order, every write is of a message of the  *)
(* page fetched last, and no fetch is made while messages of the page      *)
(* remain to be iterated.                                                  *)
OrderingPreserved ==
    /\ \A i, j \in 1..Len(log) :
          (i < j /\ IsWrite(log[i]) /\ IsWrite(log[j]) /\ SamePage(i, j))
              => log[i].ts < log[j].ts
    /\ \A i \in 1..Len(log) :
          IsWrite(log[i]) =>
              LET f == log[FetchBefore(i)]
              IN  /\ f.ts < log[i].ts
                  /\ f.newest # None => log[i].ts <= Unwrap(f.newest)
    /\ pc = "fetch" => todo = <<>>

(* two writes of one page, then the fetch of the next page *)
OrderingPreservedWitness ==
    \E i \in 1..Len(log) :
        /\ i + 2 <= Len(log)
        /\ IsWrite(log[i]) /\ log[i].res = "ok"
        /\ IsWrite(log[i + 1]) /\ log[i + 1].res = "ok"
        /\ log[i + 2].e = "fetch" /\ log[i + 2].n > 0

(* C9  Non-standard messages: every stored record is that of a standard    *)
(* message of its channel; and when the newest message of a non-empty page *)
(* is not standard and carries a timestamp, that timestamp is the lower    *)
(* bound the run holds for its next fetch call and the one the next call   *)
(* is made with.                                                           *)
NonStandardNewest(x) ==
    x.e = "fetch" /\ x.n > 0 /\ x.kind # "Standard" /\ x.kind # "" /\ x.newest # None

NonStandardSkipped ==
    /\ \A r \in db :
          \E i \in 1..Len(feed[r.channel_id]) :
              /\ feed[r.channel_id][i].kind = "Standard"
              /\ feed[r.channel_id][i].at = r.ts
    /\ \A i \in 1..Len(log) :
          NonStandardNewest(log[i]) =>
              /\ \A j \in (i + 1)..Len(log) :
                    (log[j].e = "fetch" /\ SamePage(i, j - 1))
                        => log[j].ts = Unwrap(log[i].newest)
              /\ SamePage(i, Len(log)) => oldest_ts = Unwrap(log[i].newest)

(* a page headed by a channel-join event, not stored, bounded the next call *)
NonStandardSkippedWitness ==
    \E i \in 1..Len(log) : \E j \in (i + 1)..Len(log) :
        /\ NonStandardNewest(log[i])
        /\ log[j].e = "fetch" /\ log[j].res # "err"
        /\ SamePage(i, j - 1)
        /\ log[j].ts = Unwrap(log[i].newest)
        /\ ~HasKey(db, chan, Unwrap(log[i].newest))

(* C10  Failure semantics: a failed fetch call or write is the last thing  *)
(* its run does (no fetch call and no write follows it, the run has ended  *)
(* with the error), and every record the run wrote before is in the store  *)
(* as written.                                                             *)
Failed(x) == x.res \in {"err", "io", "constraint"}

FailureSemantics ==
    /\ \A i \in 1..Len(log) : Failed(log[i]) => (i = Len(log) /\ pc = "failed")
    /\ pc = "failed" => (log # <<>> /\ Failed(log[Len(log)]))
    /\ pc = "failed" =>
          \A i \in 1..Len(log) :
              (/\ IsWrite(log[i]) /\ log[i].res = "ok"
               /\ \A j \in (i + 1)..Len(log) :
                     ~(IsWrite(log[j]) /\ log[j].res = "ok" /\ log[j].ts = log[i].ts))
                  => Record(chan, log[i].ts, Unwrap(log[i].from), log[i].text) \in db

(* a run that failed in its second page, after writes of the first *)
FailureSemanticsWitness ==
    /\ pc = "failed"
    /\ Len(Writes(log)) >= 1
    /\ Len(FetchCalls(log)) = 2
    /\ \A r \in {Record(chan, Writes(log)[i].ts, Unwrap(Writes(log)[i].from), Writes(log)[i].text) :
                    i \in 1..Len(Writes(log))} : r \in db

(* C11  Filtered, not failed: a standard message without a timestamp or    *)
(* without a body is not written (no write is made with an absent body, no *)
(* record has one), the run does not abort on it (no unwrap panic), and    *)
(* when a first run is done every standard message that has its timestamp, *)
(* author and body is stored.                                              *)
Incomplete(m) == m.kind = "Standard" /\ (m.ts = None \/ m.text = None)
Complete(m) == m.kind = "Standard" /\ m.ts # None /\ m.user # None /\ m.text # None

FilteredNotFailed ==
    /\ \A i \in 1..Len(log) : IsWrite(log[i]) => log[i].text # None
    /\ \A r \in db : r.text # None
    /\ \A i \in 1..Len(log) : ~(log[i].e = "panic" /\ log[i].res = "unwrap")
    /\ (pc = "done" /\ StartedOk /\ CursorAtStart = None) =>
          \A i \in 1..Len(feed[chan]) :
              Complete(feed[chan][i]) => ExpectedRecord(chan, feed[chan][i]) \in db

(* what the code does with such messages: the one without a timestamp ends *)
(* the run in a panic before any later message of the page is written, the *)
(* one without a body is stored with a NULL text                           *)
AbortedOnMissingTs ==
    /\ pc = "panicked"
    /\ log[Len(log)].e = "panic" /\ log[Len(log)].res = "unwrap"
    /\ \E i \in 1..Len(feed[chan]) :
          Complete(feed[chan][i]) /\ ~HasKey(db, chan, feed[chan][i].at)
StoredWithoutBody ==
    \E r \in db : r.text = None

(* C12  Malformed timestamp isolation: a message whose wire timestamp      *)
(* cannot be parsed does not end the run (it never panics on it), and when *)
(* a first run is done every other standard message of the channel is      *)
(* stored.                                                                 *)
Malformed(m) == m.ts # None /\ ~slack_ts_to_unix_micros(Unwrap(m.ts)).ok
HasMalformed(c) == \E i \in 1..Len(feed[c]) : Malformed(feed[c][i])

MalformedIsolation ==
    /\ HasMalformed(chan) => pc # "panicked"
    /\ (pc = "done" /\ StartedOk /\ CursorAtStart = None) =>
          \A i \in 1..Len(feed[chan]) :
              (Complete(feed[chan][i]) /\ ~Malformed(feed[chan][i]))
                  => ExpectedRecord(chan, feed[chan][i]) \in db

(* what the code does: the run panics on the malformed timestamp with      *)
(* well-formed standard messages of the channel left unwritten             *)
AbortedOnMalformedTs ==
    /\ pc = "panicked"
    /\ HasMalformed(chan)
    /\ \E i \in 1..Len(feed[chan]) :
          /\ Complete(feed[chan][i]) /\ ~Malformed(feed[chan][i])
          /\ ~HasKey(db, chan, feed[chan][i].at)

(* C13  Empty channel: when the first fetch call of a run returns an empty *)
(* message list, that step takes the run to Done and leaves the store as   *)
(* it was, and nothing follows: the run's trace is its start and that one  *)
(* fetch call.                                                             *)
EmptyFirstPage(l) ==
    /\ Len(FetchCalls(l)) = 1
    /\ LET f == FetchCalls(l)[1]
       IN  f.n = 0 /\ f.res # "err" /\ f.kind # "absent"

EmptyChannel ==
    /\ [](EmptyFirstPage(log) => (pc = "done" /\ Len(log) = 2))
    /\ [][(FetchCalls(log) = <<>> /\ EmptyFirstPage(log'))
              => (pc' = "done" /\ db' = db)]_vars

(* a run of a channel without messages is done after one fetch call, the   *)
(* store holding the other channel's record                                *)
EmptyChannelWitness ==
    /\ feed[chan] = <<>>
    /\ pc = "done"
    /\ EmptyFirstPage(log)
    /\ db # {}

(* C14  Last page: a response whose has_more is absent is handled like one *)
(* whose has_more is false.  While its page is iterated no fetch call is   *)
(* made; once the page is iterated its standard messages are stored and    *)
(* the next step ends the run in Done; and a run makes a further fetch     *)
(* call only while it holds a response with has_more = true.               *)
NotMore == response.has_more \in {None, Some(FALSE)}
PageIterated == pc = "persist" /\ todo = <<>>

LastPage ==
    /\ []((pc = "fetch" /\ FetchCalls(log) # <<>>) => response.has_more = Some(TRUE))
    /\ [](PageIterated =>
            \A k \in 1..Len(Unwrap(response.messages)) :
                LET m == Unwrap(response.messages)[k]
                IN  is_persisted(m) => ExpectedRecord(chan, m) \in db)
    /\ [][(pc = "persist" /\ NotMore)
              => /\ pc' # "fetch"
                 /\ FetchCalls(log') = FetchCalls(log)
                 /\ PageIterated => pc' = "done"]_vars

(* the second page of a run came without the flag and has been written *)
LastPageWitness ==
    /\ PageIterated
    /\ response.has_more = None
    /\ Len(FetchCalls(log)) = 2
    /\ Len(Writes(log)) > PAGE_SIZE

(* C15  Derived cursor: for every channel, get_last_ts of the store is     *)
(* None when the store holds no record of the channel and otherwise the    *)
(* timestamp of a record of that channel that no record of that channel    *)
(* exceeds; and the cursor a run starts from is that value of the store    *)
(* the run started on, whatever ran before.                                *)
IsCursorOf(o, d, c) ==
    IF \A r \in d : r.channel_id # c
    THEN o = None
    ELSE /\ o # None
         /\ \E r \in d : r.channel_id = c /\ r.ts = Unwrap(o)
         /\ \A r \in d : r.channel_id = c => r.ts <= Unwrap(o)
JustStarted == StartedOk /\ Len(log) = 1

DerivedCursor ==
    /\ \A c \in Channels : IsCursorOf(get_last_ts(db, c), db, c)
    /\ JustStarted => IsCursorOf(CursorAtStart, db, chan)

(* a run of the second channel starts from that channel's only record      *)
(* while the store holds later records of the first channel                *)
DerivedCursorWitness ==
    /\ JustStarted
    /\ chan = "C2"
    /\ CursorAtStart = Some(SlotTime(1))
    /\ \E r \in db : r.channel_id = "C1" /\ r.ts > SlotTime(1)

(* C16  Start cursor.  The lower bound a run starts with, and makes its    *)
(* first fetch call with, against the store it started on: `first` when    *)
(* the channel has no record, otherwise the largest timestamp of the       *)
(* channel's records less the edit window (so the largest timestamp itself *)
(* when the window is 0).                                                  *)
ZeroWire == ZeroPad(<<>>, 10) \o <<".">> \o ZeroPad(<<>>, 6)
EarliestMoment == FeedBound(ZeroWire)

StartBoundIs(b, d, c, first) ==
    IF \A r \in d : r.channel_id # c
    THEN b = first
    ELSE \E r \in d :
            /\ r.channel_id = c
            /\ \A q \in d : q.channel_id = c => q.ts <= r.ts
            /\ b = r.ts - edit_window_minutes * 60 * MICROS_PER_SECOND
            /\ edit_window_minutes = 0 => b = r.ts
FirstCallUsesStartBound ==
    (StartedOk /\ FetchCalls(log) # <<>>) => FetchCalls(log)[1].ts = log[1].ts

(* the claim as written: without a record the first lower bound is the     *)
(* earliest moment the wire format represents, 0000000000.000000           *)
StartCursorEarliest ==
    /\ JustStarted => (log[1].ts = oldest_ts /\ StartBoundIs(oldest_ts, db, chan, EarliestMoment))
    /\ FirstCallUsesStartBound

(* C16 as amended: without a record the first lower bound is one           *)
(* microsecond after that moment, 0000000000.000001                        *)
StartCursor ==
    /\ JustStarted => (log[1].ts = oldest_ts /\ StartBoundIs(oldest_ts, db, chan, EarliestMoment + 1))
    /\ FirstCallUsesStartBound

(* a later run made its first call one edit window before the newest       *)
(* record, after a first run had made its own from the first bound         *)
StartCursorWitness ==
    /\ StartedOk /\ CursorAtStart # None
    /\ edit_window_minutes = EDIT_WINDOW_MINUTES
    /\ before = "done"
    /\ FetchCalls(log) # <<>>
    /\ FetchCalls(log)[1].res # "err"
    /\ FetchCalls(log)[1].ts = Unwrap(CursorAtStart) - EditWindowMicros
    /\ FetchCalls(log)[1].ts > EarliestMoment + 1

(* C17  Termination, in its finite-run form.  The feed is finite and does  *)
(* not change during a run, and a response is determined by the request's  *)
(* lower bound: a run that makes a fetch call with the lower bound of its  *)
(* previous call receives the same response again and repeats that call    *)
(* for ever.  The run ends after finitely many calls exactly when every    *)
(* fetch call after the first has a greater lower bound than the call      *)
(* before it.                                                              *)
Termination ==
    \A i \in 2..Len(FetchCalls(log)) :
        FetchCalls(log)[i].ts > FetchCalls(log)[i - 1].ts

(* the two loops of the code: a page whose newest message has no timestamp *)
(* with more to come, and a response without a message list with has_more  *)
(* true; each is followed by a call with the same lower bound              *)
RepeatsAfter(i) ==
    /\ i < Len(FetchCalls(log))
    /\ FetchCalls(log)[i].res = "more"
    /\ FetchCalls(log)[i + 1].ts = FetchCalls(log)[i].ts
    /\ FetchCalls(log)[i + 1].res = "more"
LoopOnUntimedNewest ==
    \E i \in 1..Len(FetchCalls(log)) :
        /\ RepeatsAfter(i)
        /\ FetchCalls(log)[i].n > 0 /\ FetchCalls(log)[i].newest = None
        /\ FetchCalls(log)[i + 1].n > 0 /\ FetchCalls(log)[i + 1].newest = None
LoopOnAbsentList ==
    \E i \in 1..Len(FetchCalls(log)) :
        /\ RepeatsAfter(i)
        /\ FetchCalls(log)[i].kind = "absent"
        /\ FetchCalls(log)[i + 1].kind = "absent"

(* C18  Lower-bound progress: in a run, no fetch call is made with a lower *)
(* bound below that of the call before it, nor does the run hold one below *)
(* that of its last call; and after a non-empty page whose newest message  *)
(* carries a timestamp, the next call's lower bound, and the one the run   *)
(* holds until then, is that timestamp.                                    *)
TimedPage(x) == x.n > 0 /\ x.newest # None /\ x.res # "err"

LowerBoundProgress ==
    LET calls == FetchCalls(log)
    IN  /\ \A i \in 2..Len(calls) :
              /\ calls[i].ts >= calls[i - 1].ts
              /\ TimedPage(calls[i - 1]) => calls[i].ts = Unwrap(calls[i - 1].newest)
        /\ (Running /\ calls # <<>>) =>
              /\ oldest_ts >= calls[Len(calls)].ts
              /\ TimedPage(calls[Len(calls)]) => oldest_ts = Unwrap(calls[Len(calls)].newest)

(* the second call of a run was made from the newest timestamp of a full   *)
(* first page, above the first call's lower bound                          *)
LowerBoundProgressWitness ==
    LET calls == FetchCalls(log)
    IN  /\ Len(calls) >= 2
        /\ TimedPage(calls[1]) /\ calls[1].n = PAGE_SIZE
        /\ calls[2].ts = Unwrap(calls[1].newest)
        /\ calls[2].ts > calls[1].ts
        /\ calls[2].n > 0

(* C19  Channel isolation: every step leaves the records of each channel   *)
(* other than the run's as they were, and every record a step adds to the  *)
(* store has the run's channel_id.                                         *)
ChannelIsolation ==
    [][/\ \A c \in Channels :
             c # chan => ChannelRecords(db', c) = ChannelRecords(db, c)
       /\ \A r \in db' \ db : r.channel_id = chan]_vars

(* a run of the first channel has written the message that shares its      *)
(* timestamp with the second channel's stored message                      *)
ChannelIsolationWitness ==
    /\ chan = "C1"
    /\ ExpectedRecord("C2", feed["C2"][1]) \in db
    /\ \E i \in 1..Len(log) :
          IsWrite(log[i]) /\ log[i].res = "ok" /\ log[i].ts = feed["C2"][1].at
    /\ HasKey(db, "C1", feed["C2"][1].at)

(* C20  No deletion: every step, of a run that goes on to complete or to  *)
(* fail alike, leaves every (channel_id, ts) key of the store in the store *)
(* with exactly one record; a record that a step takes out is replaced by  *)
(* one under its key.                                                      *)
Keys(d) == {<<r.channel_id, r.ts>> : r \in d}

NoDeletion ==
    [][/\ Keys(db) \subseteq Keys(db')
       /\ \A r \in db \ db' : \E q \in db' \ db : SameKey(q, r.channel_id, r.ts)
       /\ Cardinality(db') = Cardinality(Keys(db'))]_vars

(* a run replaced the record of an edited message and then failed, the     *)
(* store holding a record for every key it held before                     *)
NoDeletionWitness ==
    /\ pc = "failed"
    /\ \E i \in 1..Len(log) :
          /\ IsWrite(log[i]) /\ log[i].res = "ok" /\ log[i].n = 1
          /\ log[i].text = Some("b")
          /\ HasKey(db, chan, log[i].ts)
    /\ Cardinality(Keys(db)) > PAGE_SIZE

====
